---- MODULE Spec2Model ----
(***************************************************************************)
(* HR Employee Management: employee records, polymorphic salary rules,    *)
(* the registry (HRSystem) and its CSV persistence.                       *)
(*                                                                         *)
(* Text is a sequence of one-character strings, so that str(), float()    *)
(* and int() are modelled by what they do to the characters.  A float is  *)
(* the decimal number m * 10^e of its shortest repr (m not divisible by   *)
(* 10, or m = 0 and e = 0); repr and float() are inverse on these.        *)
(***************************************************************************)
EXTENDS Integers, Sequences, FiniteSets, TLC

\* employees  the registry self.employees of the HRSystem in use
\* file       the storage file employees.csv
\* call       the last call made: its name, arguments, result and locals
\* emp        the Employee object the driver holds (the result of
\*            get_employee, or the one object of SpecSalary)
\* today      date.today()
\* saved      history: the registry that the last writing save_to_file wrote
\* hist       history: per emp_id, the latest add_employee / remove_employee
\*            since the HRSystem was constructed
\* pl         the Playlist object of the playlist app
\* played     history: the songs whose play() returned, in play order
VARIABLES employees, file, saved, hist, call, emp, today, pl, played

vars == <<employees, file, saved, hist, call, emp, today, pl, played>>

(***************************************************************************)
(* Python values held in an Employee's data dictionary                    *)
(***************************************************************************)
PyVal(t, m, e, s) == [t |-> t, m |-> m, e |-> e, s |-> s]

IntV(n) == PyVal("int", n, 0, <<>>)

FloatV(m, e) == PyVal("float", m, e, <<>>)

StrV(s) == PyVal("str", 0, 0, s)

BoolV(b) == PyVal("bool", IF b THEN 1 ELSE 0, 0, <<>>)

\* a date object: s = <<year, month, day>>
DateV(y, mo, d) == PyVal("date", 0, 0, <<y, mo, d>>)

\* the key is not in the dictionary
Absent == PyVal("absent", 0, 0, <<>>)

\* Python's None
NoneV == PyVal("none", 0, 0, <<>>)

\* the outcome of an expression that raised an exception
Raised == PyVal("raise", 0, 0, <<>>)

IsNumber(v) == v.t \in {"int", "float"}

\* bool(v): Python truthiness
Truthy(v) ==
    CASE v.t \in {"int", "float", "bool"} -> v.m # 0
      [] v.t = "str" -> v.s # <<>>
      [] v.t = "date" -> TRUE
      [] OTHER -> FALSE

(***************************************************************************)
(* Decimal helpers                                                         *)
(***************************************************************************)
RECURSIVE Pow10(_)
Pow10(k) == IF k <= 0 THEN 1 ELSE 10 * Pow10(k - 1)

Min(a, b) == IF a <= b THEN a ELSE b

RECURSIVE StripZeros(_, _)
\* <<m, e>> with the trailing zeros of m moved into e
StripZeros(m, e) ==
    IF m = 0 THEN <<0, 0>>
    ELSE IF m % 10 = 0 THEN StripZeros(m \div 10, e + 1)
    ELSE <<m, e>>

Norm(m, e) == FloatV(StripZeros(m, e)[1], StripZeros(m, e)[2])

\* the decimal number a numeric value denotes, as a normalised pair
Decimal(v) == StripZeros(v.m, v.e)

\* the integer v * 10^(-e0), for an exponent e0 <= v.e
Scaled(v, e0) == v.m * Pow10(v.e - e0)

\* the type of an arithmetic result: int only when both operands are int
ArithType(a, b) == IF a.t = "int" /\ b.t = "int" THEN "int" ELSE "float"

Arith(t, m, e) ==
    IF t = "int" THEN IntV(m * Pow10(e)) ELSE Norm(m, e)

\* a * b on numbers; TypeError on anything else reaching the salary formulas
Mul(a, b) ==
    IF IsNumber(a) /\ IsNumber(b)
    THEN Arith(ArithType(a, b), a.m * b.m, a.e + b.e)
    ELSE Raised

\* a + b on numbers
Add(a, b) ==
    IF IsNumber(a) /\ IsNumber(b)
    THEN IF b.m = 0 THEN Arith(ArithType(a, b), a.m, a.e)
         ELSE IF a.m = 0 THEN Arith(ArithType(a, b), b.m, b.e)
         ELSE Arith(ArithType(a, b),
                    Scaled(a, Min(a.e, b.e)) + Scaled(b, Min(a.e, b.e)), Min(a.e, b.e))
    ELSE Raised

\* a >= b on numbers
GreaterEq(a, b) == Scaled(a, Min(a.e, b.e)) >= Scaled(b, Min(a.e, b.e))

\* round(v, 2): an int is returned unchanged, a float is rounded half-to-even
\* at the second decimal
Round2(v) ==
    IF ~IsNumber(v) THEN Raised
    ELSE IF v.t = "int" \/ v.e >= -2 THEN v
    ELSE LET p == Pow10(-2 - v.e)
             q == v.m \div p
             r == v.m % p
             up == 2 * r > p \/ (2 * r = p /\ q % 2 = 1)
         IN  Norm(IF up THEN q + 1 ELSE q, -2)

\* Python's == between two numbers (an int equals the float of the same value)
NumEq(a, b) == IsNumber(a) /\ IsNumber(b) /\ Decimal(a) = Decimal(b)

(***************************************************************************)
(* str() of a value, as csv.DictWriter writes it                           *)
(***************************************************************************)
DigitChars == <<"0", "1", "2", "3", "4", "5", "6", "7", "8", "9">>

IsDigit(c) == \E i \in 1..10 : DigitChars[i] = c

DigitVal(c) == (CHOOSE i \in 1..10 : DigitChars[i] = c) - 1

RECURSIVE NatToStr(_)
NatToStr(n) ==
    IF n < 10 THEN <<DigitChars[n + 1]>>
    ELSE NatToStr(n \div 10) \o <<DigitChars[(n % 10) + 1]>>

IntToStr(n) == IF n < 0 THEN <<"-">> \o NatToStr(-n) ELSE NatToStr(n)

RECURSIVE Zeros(_)
Zeros(k) == IF k <= 0 THEN <<>> ELSE <<"0">> \o Zeros(k - 1)

\* repr(float): positional notation when 1e-4 <= |x| < 1e16, otherwise the
\* exponent notation d[.ddd]e+XX, which has a '.' only with several digits
FloatRepr(m, e) ==
    LET sign  == IF m < 0 THEN <<"-">> ELSE <<>>
        D     == NatToStr(IF m < 0 THEN -m ELSE m)
        nd    == Len(D)
        decpt == nd + e
        x     == decpt - 1
        xs    == NatToStr(IF x < 0 THEN -x ELSE x)
    IN  IF m = 0 THEN <<"0", ".", "0">>
        ELSE IF decpt > 16 \/ decpt < -3
        THEN sign \o <<D[1]>>
                  \o (IF nd > 1 THEN <<".">> \o SubSeq(D, 2, nd) ELSE <<>>)
                  \o <<"e">> \o (IF x < 0 THEN <<"-">> ELSE <<"+">>)
                  \o (IF Len(xs) < 2 THEN <<"0">> ELSE <<>>) \o xs
        ELSE IF decpt <= 0
        THEN sign \o <<"0", ".">> \o Zeros(-decpt) \o D
        ELSE IF decpt >= nd
        THEN sign \o D \o Zeros(decpt - nd) \o <<".", "0">>
        ELSE sign \o SubSeq(D, 1, decpt) \o <<".">> \o SubSeq(D, decpt + 1, nd)

Pad2(n) == IF n < 10 THEN <<"0">> \o NatToStr(n) ELSE NatToStr(n)

\* str(date): YYYY-MM-DD
DateText(y, mo, d) ==
    Zeros(4 - Len(NatToStr(y))) \o NatToStr(y) \o <<"-">> \o Pad2(mo) \o <<"-">> \o Pad2(d)

\* the text csv.DictWriter writes for a value (None and a missing key: '')
PyStr(v) ==
    CASE v.t = "str" -> v.s
      [] v.t = "int" -> IntToStr(v.m)
      [] v.t = "float" -> FloatRepr(v.m, v.e)
      [] v.t = "bool" -> IF v.m = 1 THEN <<"T", "r", "u", "e">>
                                    ELSE <<"F", "a", "l", "s", "e">>
      [] v.t = "date" -> DateText(v.s[1], v.s[2], v.s[3])
      [] OTHER -> <<>>

(***************************************************************************)
(* float() and int() of a text, for texts of digits, sign, '.', 'e' and   *)
(* other characters that no number contains.  Surrounding blanks, '_'     *)
(* between digits, and the words inf and nan are not among the texts of   *)
(* the model.                                                              *)
(***************************************************************************)
AllDigits(s) == s # <<>> /\ \A i \in 1..Len(s) : IsDigit(s[i])

\* index of the first occurrence of a character of cs in s, 0 if none
FirstOf(s, cs) ==
    IF \E i \in 1..Len(s) : s[i] \in cs
    THEN CHOOSE i \in 1..Len(s) : s[i] \in cs /\ \A j \in 1..(i - 1) : s[j] \notin cs
    ELSE 0

Unsigned(s) == IF s # <<>> /\ s[1] \in {"+", "-"} THEN Tail(s) ELSE s

IsNeg(s) == s # <<>> /\ s[1] = "-"

RECURSIVE DigitsVal(_)
DigitsVal(s) == IF s = <<>> THEN 0 ELSE 10 * DigitsVal(SubSeq(s, 1, Len(s) - 1)) + DigitVal(s[Len(s)])

\* int(s) succeeds: an optional sign and decimal digits
IsIntLiteral(s) == AllDigits(Unsigned(s))

\* int(s)
PyInt(s) ==
    IF IsIntLiteral(s)
    THEN IntV((IF IsNeg(s) THEN -1 ELSE 1) * DigitsVal(Unsigned(s)))
    ELSE Raised

\* the parts of a float literal: mantissa text before e/E, exponent text after
MantPart(s) == IF FirstOf(s, {"e", "E"}) = 0 THEN s ELSE SubSeq(s, 1, FirstOf(s, {"e", "E"}) - 1)

ExpPart(s) == SubSeq(s, FirstOf(s, {"e", "E"}) + 1, Len(s))

IntDigits(u) == IF FirstOf(u, {"."}) = 0 THEN u ELSE SubSeq(u, 1, FirstOf(u, {"."}) - 1)

FracDigits(u) == IF FirstOf(u, {"."}) = 0 THEN <<>> ELSE SubSeq(u, FirstOf(u, {"."}) + 1, Len(u))

\* digits [. [digits]] or . digits
IsPointNumber(u) ==
    /\ IntDigits(u) \o FracDigits(u) # <<>>
    /\ \A i \in 1..Len(IntDigits(u)) : IsDigit(IntDigits(u)[i])
    /\ \A i \in 1..Len(FracDigits(u)) : IsDigit(FracDigits(u)[i])

\* float(s) succeeds: [sign] point-number [(e|E) [sign] digits]
IsFloatLiteral(s) ==
    /\ IsPointNumber(Unsigned(MantPart(s)))
    /\ FirstOf(s, {"e", "E"}) # 0 => IsIntLiteral(ExpPart(s))

\* float(s)
PyFloat(s) ==
    IF IsFloatLiteral(s)
    THEN LET u == Unsigned(MantPart(s))
             x == IF FirstOf(s, {"e", "E"}) = 0 THEN 0 ELSE PyInt(ExpPart(s)).m
             m == (IF IsNeg(s) THEN -1 ELSE 1) * DigitsVal(IntDigits(u) \o FracDigits(u))
         IN  Norm(m, x - Len(FracDigits(u)))
    ELSE Raised

(***************************************************************************)
(* Employee records: a class tag and the data dictionary                   *)
(***************************************************************************)
Keys == {"emp_id", "name", "join_date", "role", "monthly_salary", "bonus_percent",
         "hourly_rate", "monthly_hours", "stipend", "completed"}

RoleFullTime == <<"F", "u", "l", "l", "-", "T", "i", "m", "e">>

RolePartTime == <<"P", "a", "r", "t", "-", "T", "i", "m", "e">>

RoleIntern == <<"I", "n", "t", "e", "r", "n">>

RoleEmployee == <<"E", "m", "p", "l", "o", "y", "e", "e">>

\* Employee.__init__: emp_id, name, join_date and role are stored as given
Employee(emp_id, name, join_date, role) ==
    [cls |-> "Employee",
     data |-> [k \in Keys |->
                 CASE k = "emp_id" -> emp_id
                   [] k = "name" -> name
                   [] k = "join_date" -> join_date
                   [] k = "role" -> role
                   [] OTHER -> Absent]]

\* self.data.update({...}) / self.data[k] = v
Update(e, k, v) == [e EXCEPT !.data[k] = v]

FullTime(emp_id, name, join_date, monthly_salary, role) ==
    [cls |-> "FullTime",
     data |-> Update(Update(Employee(emp_id, name, join_date, role),
                            "monthly_salary", monthly_salary),
                     "bonus_percent", FloatV(5, -2)).data]

PartTime(emp_id, name, join_date, hourly_rate, role) ==
    [cls |-> "PartTime",
     data |-> Update(Update(Employee(emp_id, name, join_date, role),
                            "hourly_rate", hourly_rate),
                     "monthly_hours", IntV(0)).data]

Intern(emp_id, name, join_date, stipend, role) ==
    [cls |-> "Intern",
     data |-> Update(Update(Employee(emp_id, name, join_date, role),
                            "stipend", stipend),
                     "completed", BoolV(FALSE)).data]

(***************************************************************************)
(* HRSystem: the registry, a dict in insertion order, is the sequence of   *)
(* its Employee objects, each under the key data['emp_id'] it was stored   *)
(* with.                                                                   *)
(***************************************************************************)
KeyOf(e) == e.data["emp_id"]

HasKey(reg, id) == \E i \in 1..Len(reg) : KeyOf(reg[i]) = id

\* what get_employee returns for an absent id
NoneEmp == [cls |-> "None", data |-> [k \in Keys |-> Absent]]

\* add_employee that always inserts a new entry, never overwriting
add_employee_no_overwrite(reg, e) == reg \o <<e>>

\* lines 144-145 (and line 231): self.employees[emp_id] = obj overwrites in
\* place or inserts at the end
add_employee(reg, e) ==
    IF HasKey(reg, KeyOf(e))
    THEN [i \in 1..Len(reg) |-> IF KeyOf(reg[i]) = KeyOf(e) THEN e ELSE reg[i]]
    ELSE reg \o <<e>>

remove_employee(reg, id) ==
    IF HasKey(reg, id)
    THEN LET keep(x) == KeyOf(x) # id IN SelectSeq(reg, keep)
    ELSE reg

get_employee(reg, id) ==
    IF HasKey(reg, id)
    THEN reg[CHOOSE i \in 1..Len(reg) : KeyOf(reg[i]) = id /\ \A j \in 1..(i - 1) : KeyOf(reg[j]) # id]
    ELSE NoneEmp

(***************************************************************************)
(* The CSV file: whether it exists, its header and its rows, each row a   *)
(* function from the header's columns to the text of the cell.            *)
(***************************************************************************)
NoFile == [exists |-> FALSE, header |-> <<>>, rows |-> <<>>]

Columns(header) == {header[i] : i \in 1..Len(header)}

\* the keys of the model in sorted() order
SortedKeys == <<"bonus_percent", "completed", "emp_id", "hourly_rate", "join_date",
                "monthly_hours", "monthly_salary", "name", "role", "stipend">>

\* to_dict(): the keys of the data dictionary
DictKeys(e) == {k \in Keys : e.data[k] # Absent}

\* lines 167-173: the sorted union of the keys of all records
AllKeys(reg) ==
    LET all == UNION {DictKeys(reg[i]) : i \in 1..Len(reg)}
        in(k) == k \in all
    IN  SelectSeq(SortedKeys, in)

\* writer.writerow(d): str() of each value, '' for a missing key
WriteRow(e, header) == [k \in Columns(header) |-> PyStr(e.data[k])]

\* save_to_file that writes the header even for an empty registry
save_to_file_always(reg, f) ==
    [exists |-> TRUE, header |-> AllKeys(reg),
     rows |-> [i \in 1..Len(reg) |-> WriteRow(reg[i], AllKeys(reg))]]

\* lines 159-179: the file after save_to_file
save_to_file(reg, f) ==
    IF reg = <<>> THEN f
    ELSE [exists |-> TRUE, header |-> AllKeys(reg),
          rows |-> [i \in 1..Len(reg) |-> WriteRow(reg[i], AllKeys(reg))]]

(***************************************************************************)
(* _load_from_file                                                         *)
(***************************************************************************)
\* row.get(k): the cell as a str value, None when the file has no such column
Cell(row, k) == IF k \in DOMAIN row THEN StrV(row[k]) ELSE NoneV

\* float(row.get(k, 0) or 0)
FloatOrZero(row, k) ==
    IF k \in DOMAIN row /\ row[k] # <<>> THEN PyFloat(row[k]) ELSE FloatV(0, 0)

\* lines 193-214: the object built from the row's role, Raised if a
\* float() of the dispatch raises
Dispatch(row) ==
    LET role      == IF "role" \in DOMAIN row THEN row["role"] ELSE <<>>
        emp_id    == Cell(row, "emp_id")
        name      == Cell(row, "name")
        join_date == Cell(row, "join_date")
        monthly_salary == FloatOrZero(row, "monthly_salary")
        hourly    == FloatOrZero(row, "hourly_rate")
        mh        == Cell(row, "monthly_hours")
        stipend   == FloatOrZero(row, "stipend")
    IN  IF role = RoleFullTime
        THEN IF monthly_salary = Raised THEN Raised
             ELSE FullTime(emp_id, name, join_date, monthly_salary, StrV(RoleFullTime))
        ELSE IF role = RolePartTime
        THEN IF hourly = Raised THEN Raised
             ELSE LET e == PartTime(emp_id, name, join_date, hourly, StrV(RolePartTime))
                      h == PyFloat(mh.s)
                  IN  IF Truthy(mh)
                      THEN IF h = Raised THEN Raised ELSE Update(e, "monthly_hours", h)
                      ELSE e
        ELSE IF role = RoleIntern
        THEN IF stipend = Raised THEN Raised
             ELSE LET e == Intern(emp_id, name, join_date, stipend, StrV(RoleIntern))
                  IN  IF Cell(row, "completed") \in
                           {StrV(<<"T", "r", "u", "e">>), StrV(<<"t", "r", "u", "e">>), StrV(<<"1">>)}
                      THEN Update(e, "completed", BoolV(TRUE))
                      ELSE e
        ELSE Employee(emp_id, name, join_date, StrV(role))

\* lines 222-230: float(v) when v has a '.', else int(v); the text itself
\* when that raises
Coerce(v) ==
    IF FirstOf(v, {"."}) # 0
    THEN (IF PyFloat(v) = Raised THEN StrV(v) ELSE PyFloat(v))
    ELSE (IF PyInt(v) = Raised THEN StrV(v) ELSE PyInt(v))

\* lines 216-230: every other non-empty cell of the row is coerced and
\* stored into the data dictionary
ExtraFields(e, row) ==
    [e EXCEPT !.data =
        [k \in Keys |->
            IF /\ k \in DOMAIN row
               /\ k \notin {"emp_id", "name", "join_date", "role"}
               /\ row[k] # <<>>
            THEN Coerce(row[k])
            ELSE e.data[k]]]

\* the object a row yields, Raised when its parse raises
LoadRow(row) ==
    LET d == Dispatch(row)
    IN  IF d = Raised THEN Raised ELSE ExtraFields(d, row)

RECURSIVE LoadRows_first_wins(_, _)
\* the row loop keeping the first row of each emp_id
LoadRows_first_wins(rows, reg) ==
    IF rows = <<>> THEN [reg |-> reg, raised |-> FALSE]
    ELSE LET e == LoadRow(Head(rows))
         IN  IF e = Raised THEN [reg |-> reg, raised |-> TRUE]
             ELSE LoadRows_first_wins(Tail(rows),
                      IF HasKey(reg, KeyOf(e)) THEN reg ELSE reg \o <<e>>)

RECURSIVE LoadRows(_, _)
\* lines 192-231: the rows in file order, stopping at the first that raises
LoadRows(rows, reg) ==
    IF rows = <<>> THEN [reg |-> reg, raised |-> FALSE]
    ELSE LET e == LoadRow(Head(rows))
         IN  IF e = Raised THEN [reg |-> reg, raised |-> TRUE]
             ELSE LoadRows(Tail(rows), add_employee(reg, e))

\* _load_from_file whose handler keeps the rows loaded so far
load_from_file_keeps_partial(f) ==
    IF ~f.exists THEN [employees |-> <<>>, raised |-> FALSE]
    ELSE [employees |-> LoadRows(f.rows, <<>>).reg, raised |-> FALSE]

\* lines 187-234, called on the empty registry of __init__: the registry
\* after the call, and whether an exception leaves the call
load_from_file(f) ==
    IF ~f.exists THEN [employees |-> <<>>, raised |-> FALSE]
    ELSE LET r == LoadRows(f.rows, <<>>)
         IN  IF r.raised THEN [employees |-> <<>>, raised |-> FALSE]
             ELSE [employees |-> r.reg, raised |-> FALSE]

(***************************************************************************)
(* Employee.years_of_service                                               *)
(***************************************************************************)
RECURSIVE Split(_, _)
\* s.split(c)
Split(s, c) ==
    IF FirstOf(s, {c}) = 0 THEN <<s>>
    ELSE <<SubSeq(s, 1, FirstOf(s, {c}) - 1)>>
         \o Split(SubSeq(s, FirstOf(s, {c}) + 1, Len(s)), c)

IsLeap(y) == y % 4 = 0 /\ (y % 100 # 0 \/ y % 400 = 0)

DaysInMonth(y, mo) ==
    IF mo = 2 THEN (IF IsLeap(y) THEN 29 ELSE 28)
    ELSE IF mo \in {4, 6, 9, 11} THEN 30 ELSE 31

\* date(y, mo, d): ValueError unless it is a calendar date
MakeDate(y, mo, d) ==
    IF y \in 1..9999 /\ mo \in 1..12 /\ d \in 1..DaysInMonth(y, mo)
    THEN DateV(y, mo, d)
    ELSE Raised

\* lines 39-42: a str join_date is split at '-' into exactly three ints
JoinDate(jd) ==
    IF jd.t = "str"
    THEN LET p == Split(jd.s, "-")
         IN  IF Len(p) = 3 /\ \A i \in 1..3 : IsIntLiteral(p[i])
             THEN MakeDate(PyInt(p[1]).m, PyInt(p[2]).m, PyInt(p[3]).m)
             ELSE Raised
    ELSE IF jd.t = "date" THEN jd ELSE Raised

\* (a, b) < (c, d) on tuples
TupleLess(a, b, c, d) == a < c \/ (a = c /\ b < d)

years_of_service(e, now) ==
    LET jd == JoinDate(e.data["join_date"])
    IN  IF jd = Raised THEN Raised
        ELSE IntV(now.s[1] - jd.s[1]
                  - (IF TupleLess(now.s[2], now.s[3], jd.s[2], jd.s[3]) THEN 1 ELSE 0))

(***************************************************************************)
(* calculate_salary of the three variants.  Each returns the record of    *)
(* the call: the value returned (Raised when the call raises), the local  *)
(* extra of FullTime, and the object after the call.                      *)
(***************************************************************************)
\* ExtraRate without the cap of line 77
ExtraRate_uncapped(years) == Mul(IntV(years \div 3), FloatV(1, -2))

\* line 77: min((years // 3) * 0.01, 0.05)
ExtraRate(years) ==
    LET a == Mul(IntV(years \div 3), FloatV(1, -2))
    IN  IF GreaterEq(FloatV(5, -2), a) THEN a ELSE FloatV(5, -2)

FullTime_calculate_salary(e, months, apply_bonus, now) ==
    LET base  == Mul(e.data["monthly_salary"], months)
        years == years_of_service(e, now)
        extra == IF years = Raised THEN Raised ELSE ExtraRate(years.m)
        bonus_rate   == Add(e.data["bonus_percent"], extra)
        bonus_amount == Mul(base, bonus_rate)
    IN  [ret   |-> IF apply_bonus THEN Round2(Add(base, bonus_amount)) ELSE Round2(base),
         years |-> IF apply_bonus THEN years ELSE Absent,
         extra |-> IF apply_bonus THEN extra ELSE Absent,
         obj   |-> e]

\* PartTime.calculate_salary with the bonus test hours_worked > 80
PartTime_calculate_salary_gt(e, hours_worked, apply_bonus) ==
    LET base == Mul(e.data["hourly_rate"], hours_worked)
        bonus_amount ==
            IF apply_bonus /\ ~GreaterEq(IntV(80), hours_worked)
            THEN Mul(base, FloatV(2, -2))
            ELSE IntV(0)
    IN  [ret   |-> Round2(Add(base, bonus_amount)),
         years |-> Absent,
         extra |-> Absent,
         obj   |-> Update(e, "monthly_hours", hours_worked)]

\* PartTime.calculate_salary that stores the hours only when the bonus applies
PartTime_calculate_salary_nostore(e, hours_worked, apply_bonus) ==
    LET base == Mul(e.data["hourly_rate"], hours_worked)
        bonus == apply_bonus /\ GreaterEq(hours_worked, IntV(80))
    IN  [ret   |-> Round2(Add(base, IF bonus THEN Mul(base, FloatV(2, -2)) ELSE IntV(0))),
         years |-> Absent,
         extra |-> Absent,
         obj   |-> IF bonus THEN Update(e, "monthly_hours", hours_worked) ELSE e]

\* line 102 raises at once unless the product is defined (str * int repeats
\* the text); line 105 raises before monthly_hours is stored when the base
\* is not a number; otherwise monthly_hours is stored before round() raises
PartTime_calculate_salary(e, hours_worked, apply_bonus) ==
    LET rate == e.data["hourly_rate"]
        base == Mul(rate, hours_worked)
        bonus_amount ==
            IF apply_bonus /\ GreaterEq(hours_worked, IntV(80))
            THEN Mul(base, FloatV(2, -2))
            ELSE IntV(0)
    IN  IF \/ bonus_amount = Raised
           \/ (~IsNumber(rate) /\ ~(rate.t = "str" /\ hours_worked.t = "int"))
        THEN [ret |-> Raised, years |-> Absent, extra |-> Absent, obj |-> e]
        ELSE [ret   |-> Round2(Add(base, bonus_amount)),
              years |-> Absent,
              extra |-> Absent,
              obj   |-> Update(e, "monthly_hours", hours_worked)]

Intern_calculate_salary(e, apply_completion_allowance) ==
    LET base == e.data["stipend"]
        allowance ==
            IF apply_completion_allowance /\ Truthy(e.data["completed"])
            THEN Mul(FloatV(1, -1), base)
            ELSE IntV(0)
    IN  [ret   |-> Round2(Add(base, allowance)),
         years |-> Absent,
         extra |-> Absent,
         obj   |-> e]

(***************************************************************************)
(* The record of the last call made by the driver                          *)
(***************************************************************************)
Call(op, arg, flag, r) ==
    [op |-> op, arg |-> arg, flag |-> flag, ret |-> r.ret, years |-> r.years,
     extra |-> r.extra]

NoResult == [ret |-> Absent, years |-> Absent, extra |-> Absent]

NoCall == Call("none", Absent, FALSE, NoResult)

(***************************************************************************)
(* The playlist app: songs and the Playlist                                *)
(***************************************************************************)
\* str.replace(old, new) for one-character old and new
Replace(s, old, new) == [i \in 1..Len(s) |-> IF s[i] = old THEN new ELSE s[i]]

\* the info tuple (name, artist, length_seconds) of a song
Song(name, artist, length_seconds) ==
    [cls |-> "Song", info |-> <<name, artist, length_seconds>>, src |-> NoneV]

LocalSong(name, artist, length_seconds, file_path) ==
    [cls |-> "LocalSong", info |-> <<name, artist, length_seconds>>,
     src |-> IF Truthy(file_path) THEN file_path
             ELSE StrV(<<"/", "m", "u", "s", "i", "c", "/">> \o name \o <<".", "m", "p", "3">>)]

OnlineSong(name, artist, length_seconds, stream_url) ==
    [cls |-> "OnlineSong", info |-> <<name, artist, length_seconds>>,
     src |-> IF Truthy(stream_url) THEN stream_url
             ELSE StrV(<<"h", "t", "t", "p", "s", ":", "/", "/", "s", "t", "r", "e", "a", "m", ".",
                         "e", "x", "a", "m", "p", "l", "e", "/">> \o Replace(name, " ", "_"))]

\* song.play(): LocalSong and OnlineSong print and sleep; the base class raises
Song_play(song) == IF song.cls = "Song" THEN Raised ELSE NoneV

Playlist(name, recently_played_limit) ==
    [name |-> name, songs |-> <<>>, recently_played |-> <<>>, maxlen |-> recently_played_limit]

\* no Playlist has been constructed
NoPlaylist == Playlist(<<>>, 0)

\* an append that keeps every element
deque_append_unbounded(d, maxlen, x) == Append(d, x)

\* deque.append on a deque(maxlen=...): a full deque drops its leftmost
\* element; a deque of maxlen 0 stays empty
deque_append(d, maxlen, x) ==
    IF maxlen = 0 THEN d
    ELSE IF Len(d) = maxlen THEN Append(Tail(d), x)
    ELSE Append(d, x)

\* list.pop(i), 1-based here
Pop(q, i) == SubSeq(q, 1, i - 1) \o SubSeq(q, i + 1, Len(q))

add_song(p, song) == [ret |-> NoneV, obj |-> [p EXCEPT !.songs = Append(@, song)]]

remove_song_by_name(p, name) ==
    LET hits == {i \in 1..Len(p.songs) : p.songs[i].info[1] = name}
    IN  IF hits = {} THEN [ret |-> BoolV(FALSE), obj |-> p]
        ELSE LET i == CHOOSE j \in hits : \A k \in hits : j <= k
             IN  [ret |-> BoolV(TRUE), obj |-> [p EXCEPT !.songs = Pop(@, i)]]

\* index is 0-based as in the code
remove_song_by_index(p, index) ==
    IF 0 <= index /\ index < Len(p.songs)
    THEN [ret |-> BoolV(TRUE), obj |-> [p EXCEPT !.songs = Pop(@, index + 1)]]
    ELSE [ret |-> BoolV(FALSE), obj |-> p]

\* the outcomes of shuffle(): random.shuffle may leave any order of the songs
shuffle(p) ==
    IF Len(p.songs) <= 1 THEN {[ret |-> NoneV, obj |-> p]}
    ELSE {[ret |-> NoneV, obj |-> [p EXCEPT !.songs = [i \in 1..Len(p.songs) |-> p.songs[f[i]]]]] :
             f \in Permutations(1..Len(p.songs))}

play_song(p, index) ==
    IF ~(0 <= index /\ index < Len(p.songs)) THEN [ret |-> NoneV, obj |-> p]
    ELSE LET song == p.songs[index + 1]
         IN  IF Song_play(song) = Raised THEN [ret |-> Raised, obj |-> p]
             ELSE [ret |-> NoneV,
                   obj |-> [p EXCEPT !.recently_played = deque_append(@, p.maxlen, song)]]

play_next(p) ==
    IF p.songs = <<>> THEN [ret |-> NoneV, obj |-> p]
    ELSE play_song(p, 0)

(***************************************************************************)
(* Inputs of the salary calls                                              *)
(***************************************************************************)
TodayYear == 2026

YearSpan == 19

\* a join_date given as YYYY-MM-DD text
DateStr(y, mo, d) == StrV(DateText(y, mo, d))

E1 == <<"E", "1">>

E2 == <<"E", "2">>

Ids == {E1, E2}

NameA == StrV(<<"A", "n", "n">>)

NameB == StrV(<<"B", "o", "b">>)

JoinYears == (TodayYear - YearSpan)..(TodayYear + 1)

JoinDays == {<<6, 14>>, <<6, 15>>, <<6, 16>>}

JoinDates ==
    {DateStr(y, md[1], md[2]) : y \in JoinYears, md \in JoinDays}
    \cup {DateV(y, 6, 15) : y \in {TodayYear - 4, TodayYear}}

Todays == {DateV(TodayYear, 6, 15)}

\* 0, 500, 12.5, 0.2: amounts whose binary-float results equal the decimal ones
Amounts == {IntV(0), IntV(500), FloatV(125, -1), FloatV(2, -1)}

\* 0, 79, 80, 81, 79.5, 80.5
HoursWorked == {IntV(0), IntV(79), IntV(80), IntV(81), FloatV(795, -1), FloatV(805, -1)}

MonthsPaid == {IntV(1), IntV(3)}

\* line 246: the driver marks an intern completed
MarkCompleted(e) == Update(e, "completed", BoolV(TRUE))

SalaryEmployees ==
    {FullTime(StrV(E1), NameA, jd, a, StrV(RoleFullTime)) : jd \in JoinDates, a \in Amounts}
    \cup {PartTime(StrV(E1), NameA, DateStr(TodayYear, 6, 15), a, StrV(RolePartTime)) : a \in Amounts}
    \cup {Intern(StrV(E1), NameA, DateStr(TodayYear, 6, 15), a, StrV(RoleIntern)) : a \in Amounts}
    \cup {MarkCompleted(Intern(StrV(E1), NameA, DateStr(TodayYear, 6, 15), a, StrV(RoleIntern))) : a \in Amounts}

\* ghost of the registry calls: what the calls since construction did to each id: "untouched", or the
\* object of the latest add_employee, or "removed" by a later remove_employee
Untouched == [id \in Ids |-> [st |-> "untouched", rec |-> NoneEmp]]

NoSave == [valid |-> FALSE, reg |-> <<>>]

Ret(v) == [ret |-> v, years |-> Absent, extra |-> Absent]

(***************************************************************************)
(* SpecSalary: one employee object and the salary calls on it              *)
(***************************************************************************)
InitSalary ==
    /\ emp \in SalaryEmployees
    /\ today \in Todays
    /\ call = NoCall
    /\ employees = <<>>
    /\ file = NoFile
    /\ saved = NoSave
    /\ hist = Untouched
    /\ pl = NoPlaylist
    /\ played = <<>>

CalcFullTime ==
    /\ emp.cls = "FullTime"
    /\ \E months \in MonthsPaid, apply_bonus \in BOOLEAN :
          LET r == FullTime_calculate_salary(emp, months, apply_bonus, today)
          IN  /\ call' = Call("FullTime.calculate_salary", months, apply_bonus, r)
              /\ emp' = r.obj
    /\ UNCHANGED <<employees, file, saved, hist, today, pl, played>>

CalcPartTime ==
    /\ emp.cls = "PartTime"
    /\ \E hours_worked \in HoursWorked, apply_bonus \in BOOLEAN :
          LET r == PartTime_calculate_salary(emp, hours_worked, apply_bonus)
          IN  /\ call' = Call("PartTime.calculate_salary", hours_worked, apply_bonus, r)
              /\ emp' = r.obj
    /\ UNCHANGED <<employees, file, saved, hist, today, pl, played>>

CalcIntern ==
    /\ emp.cls = "Intern"
    /\ \E apply_completion_allowance \in BOOLEAN :
          LET r == Intern_calculate_salary(emp, apply_completion_allowance)
          IN  /\ call' = Call("Intern.calculate_salary", Absent, apply_completion_allowance, r)
              /\ emp' = r.obj
    /\ UNCHANGED <<employees, file, saved, hist, today, pl, played>>

NextSalary == CalcFullTime \/ CalcPartTime \/ CalcIntern

SpecSalary == InitSalary /\ [][NextSalary]_vars

(***************************************************************************)
(* Spec: one HRSystem, the calls of its driver, and the storage file.     *)
(* emp is the object the last call returned (None but for get_employee).  *)
(***************************************************************************)
JoinText == DateStr(2024, 7, 1)

\* a row of a file with every column of the model
Row(emp_id, name, role, monthly_salary, hourly_rate, monthly_hours, stipend, completed) ==
    [k \in Keys |->
        CASE k = "emp_id" -> emp_id
          [] k = "name" -> name
          [] k = "join_date" -> JoinText.s
          [] k = "role" -> role
          [] k = "monthly_salary" -> monthly_salary
          [] k = "bonus_percent" -> IF role = RoleFullTime THEN <<"0", ".", "0", "5">> ELSE <<>>
          [] k = "hourly_rate" -> hourly_rate
          [] k = "monthly_hours" -> monthly_hours
          [] k = "stipend" -> stipend
          [] k = "completed" -> completed]

FileOf(rows) == [exists |-> TRUE, header |-> SortedKeys, rows |-> rows]

\* a file left by an earlier run, and one whose only row cannot be parsed
GoodSeed == FileOf(<<Row(E1, NameA.s, RoleFullTime, <<"5", "0", "0">>, <<>>, <<>>, <<>>, <<>>)>>)

BadSeed == FileOf(<<Row(E1, NameA.s, RoleFullTime, <<"a", "b", "c">>, <<>>, <<>>, <<>>, <<>>)>>)

\* the objects the driver constructs, with the default roles: a FullTime
\* paid 500, a PartTime at 1e-05 an hour paid once for 79.5 hours, and a
\* completed intern at 12.5
NewEmployees ==
    UNION {{FullTime(StrV(id), NameA, JoinText, IntV(500), StrV(RoleFullTime)),
            PartTime_calculate_salary(
                PartTime(StrV(id), NameB, JoinText, FloatV(1, -5), StrV(RolePartTime)),
                FloatV(795, -1), FALSE).obj,
            MarkCompleted(Intern(StrV(id), NameB, JoinText, FloatV(125, -1), StrV(RoleIntern)))}
           : id \in Ids}

Init ==
    /\ file \in {NoFile, GoodSeed, BadSeed}
    /\ employees = load_from_file(file).employees
    /\ saved = NoSave
    /\ hist = Untouched
    /\ call = NoCall
    /\ emp = NoneEmp
    /\ today \in Todays
    /\ pl = NoPlaylist
    /\ played = <<>>

AddEmployee ==
    \E e \in NewEmployees :
        /\ employees' = add_employee(employees, e)
        /\ hist' = [hist EXCEPT ![KeyOf(e).s] = [st |-> "added", rec |-> e]]
        /\ call' = Call("add_employee", KeyOf(e), FALSE, Ret(NoneV))
        /\ emp' = NoneEmp
        /\ UNCHANGED <<file, saved, today, pl, played>>

RemoveEmployee ==
    \E id \in Ids :
        /\ employees' = remove_employee(employees, StrV(id))
        /\ hist' = [hist EXCEPT ![id] = [st |-> "removed", rec |-> NoneEmp]]
        /\ call' = Call("remove_employee", StrV(id), FALSE, Ret(NoneV))
        /\ emp' = NoneEmp
        /\ UNCHANGED <<file, saved, today, pl, played>>

GetEmployee ==
    \E id \in Ids :
        /\ emp' = get_employee(employees, StrV(id))
        /\ call' = Call("get_employee", StrV(id), FALSE, Ret(NoneV))
        /\ UNCHANGED <<employees, file, saved, hist, today, pl, played>>

SaveToFile ==
    /\ file' = save_to_file(employees, file)
    /\ saved' = IF employees = <<>> THEN saved ELSE [valid |-> TRUE, reg |-> employees]
    /\ call' = Call("save_to_file", Absent, FALSE, Ret(NoneV))
    /\ emp' = NoneEmp
    /\ UNCHANGED <<employees, hist, today, pl, played>>

\* hr = HRSystem(): a new registry loaded from the storage file
Construct ==
    /\ LET r == load_from_file(file)
       IN  /\ employees' = r.employees
           /\ call' = Call("HRSystem", Absent, FALSE, Ret(IF r.raised THEN Raised ELSE NoneV))
    /\ hist' = Untouched
    /\ emp' = NoneEmp
    /\ UNCHANGED <<file, saved, today, pl, played>>

Next == AddEmployee \/ RemoveEmployee \/ GetEmployee \/ SaveToFile \/ Construct

Spec == Init /\ [][Next]_vars

(***************************************************************************)
(* SpecLoad: a storage file left by anyone, then HRSystem() and salary    *)
(* calls on the loaded records                                             *)
(***************************************************************************)
MaxRows == 2

MaxLen == 3

\* rows of the three variants and of an unknown role, some of them with a
\* cell float() rejects
TemplateRows(id) ==
    {Row(id, NameA.s, RoleFullTime, <<"5", "0", "0">>, <<>>, <<>>, <<>>, <<>>),
     Row(id, NameB.s, RoleFullTime, <<"1", "2", ".", "5">>, <<>>, <<>>, <<>>, <<>>),
     Row(id, NameB.s, RoleFullTime, <<"a", "b", "c">>, <<>>, <<>>, <<>>, <<>>),
     Row(id, NameA.s, RolePartTime, <<>>, <<"0", ".", "2">>, <<"7", "9", ".", "5">>, <<>>, <<>>),
     Row(id, NameB.s, RolePartTime, <<>>, <<"5">>, <<"x">>, <<>>, <<>>),
     Row(id, NameA.s, RoleIntern, <<>>, <<>>, <<>>, <<"5", "0", "0">>, <<"T", "r", "u", "e">>),
     Row(id, NameB.s, RoleIntern, <<>>, <<>>, <<>>, <<"5", "0", "0">>, <<"F", "a", "l", "s", "e">>),
     Row(id, NameA.s, RoleIntern, <<>>, <<>>, <<>>, <<"1", "2", ".", "5">>, <<"1">>),
     Row(id, NameB.s, RoleIntern, <<>>, <<>>, <<>>, <<"5", "0", "0">>, <<>>),
     Row(id, NameA.s, RoleEmployee, <<"5", "0", "0">>, <<>>, <<>>, <<>>, <<>>)}

SeedRows == UNION {TemplateRows(id) : id \in Ids}

RECURSIVE SeqsUpTo(_, _)
\* the sequences over S of length at most n
SeqsUpTo(S, n) ==
    IF n = 0 THEN {<<>>}
    ELSE SeqsUpTo(S, n - 1) \cup {q \o <<x>> : q \in {p \in SeqsUpTo(S, n - 1) : Len(p) = n - 1}, x \in S}

\* the characters of numeric cells, and every text of them up to MaxLen
NumChars == {"1", "5", ".", "e", "-"}

Texts == SeqsUpTo(NumChars, MaxLen)

\* one row whose typed columns all hold the text t
TextRow(role, t) ==
    Row(E1, NameA.s, role,
        IF role = RoleFullTime THEN t ELSE <<>>,
        IF role = RolePartTime THEN t ELSE <<>>,
        IF role = RolePartTime THEN t ELSE <<>>,
        IF role = RoleIntern THEN t ELSE <<>>,
        <<>>)

CompletedTexts == {<<"T", "r", "u", "e">>, <<"t", "r", "u", "e">>, <<"1">>, <<"F", "a", "l", "s", "e">>, <<"0">>}

\* a file without the role, join_date and variant columns
LegacyRow(id, salary) ==
    [k \in {"emp_id", "monthly_salary", "name"} |->
        CASE k = "emp_id" -> id [] k = "name" -> NameA.s [] OTHER -> salary]

LegacyFile ==
    [exists |-> TRUE, header |-> <<"emp_id", "monthly_salary", "name">>,
     rows |-> <<LegacyRow(E1, <<"5", "0", "0">>), LegacyRow(E2, <<"a", "b", "c">>)>>]

SeedFiles ==
    {NoFile, LegacyFile}
    \cup {FileOf(rows) : rows \in SeqsUpTo(SeedRows, MaxRows)}
    \cup {FileOf(<<TextRow(role, t)>>) : role \in {RoleFullTime, RolePartTime, RoleIntern}, t \in Texts}
    \cup {FileOf(<<Row(E1, NameA.s, RoleIntern, <<>>, <<>>, <<>>, <<"5", "0", "0">>, c)>>) : c \in CompletedTexts}

InitLoad ==
    /\ file \in SeedFiles
    /\ employees = <<>>
    /\ saved = NoSave
    /\ hist = Untouched
    /\ call = NoCall
    /\ emp = NoneEmp
    /\ today \in Todays
    /\ pl = NoPlaylist
    /\ played = <<>>

\* line 35: the base class has no salary rule
Employee_calculate_salary(e) == [ret |-> Raised, years |-> Absent, extra |-> Absent, obj |-> e]

\* the driver's loop of lines 255-268 on one record of the registry: one
\* month / 80 hours, with and without the bonus or allowance
CalcLoaded ==
    \E i \in 1..Len(employees), flag \in BOOLEAN :
        LET e == employees[i]
            r == CASE e.cls = "FullTime" -> FullTime_calculate_salary(e, IntV(1), flag, today)
                   [] e.cls = "PartTime" -> PartTime_calculate_salary(e, IntV(80), flag)
                   [] e.cls = "Intern" -> Intern_calculate_salary(e, flag)
                   [] OTHER -> Employee_calculate_salary(e)
        IN  /\ employees' = [employees EXCEPT ![i] = r.obj]
            /\ call' = Call(e.cls \o ".calculate_salary", KeyOf(e), flag, r)
            /\ emp' = NoneEmp
            /\ UNCHANGED <<file, saved, hist, today, pl, played>>

NextLoad == Construct \/ CalcLoaded

SpecLoad == InitLoad /\ [][NextLoad]_vars

(***************************************************************************)
(* SpecPlaylist: one Playlist and the calls on it                          *)
(***************************************************************************)
MaxSongs == 2

MaxPlays == 4

MaxLimit == 2

Drive == <<"D", "r", "i", "v", "e">>

CityLights == <<"C", "i", "t", "y", " ", "L", "i", "g", "h", "t", "s">>

Sunset == <<"S", "u", "n", "s", "e", "t">>

\* a local song with its file_path, an online song with the default
\* stream_url, and a song of the base class, which has the local song's name
Catalogue ==
    {LocalSong(Drive, <<"T", "C">>, 185,
               StrV(<<"/", "m", "u", "s", "i", "c", "/", "D", ".", "m", "p", "3">>)),
     OnlineSong(CityLights, <<"S", "P">>, 198, NoneV),
     Song(Drive, <<"X">>, 60)}

\* the names asked for: two of the catalogue and one that no song has
SongNames == {Drive, CityLights, Sunset}

Indexes == (-1)..MaxSongs

RoadtripMix == <<"R", "o", "a", "d", "t", "r", "i", "p", " ", "M", "i", "x">>

InitPlaylist ==
    /\ \E limit \in 0..MaxLimit : pl = Playlist(RoadtripMix, limit)
    /\ played = <<>>
    /\ call = NoCall
    /\ employees = <<>>
    /\ file = NoFile
    /\ saved = NoSave
    /\ hist = Untouched
    /\ emp = NoneEmp
    /\ today \in Todays

AddSong ==
    /\ Len(pl.songs) < MaxSongs
    /\ \E song \in Catalogue :
          LET r == add_song(pl, song)
          IN  /\ pl' = r.obj
              /\ call' = Call("add_song", StrV(song.info[1]), FALSE, Ret(r.ret))
    /\ UNCHANGED <<employees, file, saved, hist, emp, today, played>>

RemoveSongByName ==
    /\ \E name \in SongNames :
          LET r == remove_song_by_name(pl, name)
          IN  /\ pl' = r.obj
              /\ call' = Call("remove_song_by_name", StrV(name), FALSE, Ret(r.ret))
    /\ UNCHANGED <<employees, file, saved, hist, emp, today, played>>

RemoveSongByIndex ==
    /\ \E index \in Indexes :
          LET r == remove_song_by_index(pl, index)
          IN  /\ pl' = r.obj
              /\ call' = Call("remove_song_by_index", IntV(index), FALSE, Ret(r.ret))
    /\ UNCHANGED <<employees, file, saved, hist, emp, today, played>>

Shuffle ==
    /\ \E r \in shuffle(pl) :
          /\ pl' = r.obj
          /\ call' = Call("shuffle", Absent, FALSE, Ret(r.ret))
    /\ UNCHANGED <<employees, file, saved, hist, emp, today, played>>

\* the history gains the song at index when the index is in range and the
\* song's play() returns
Plays(index) ==
    /\ 0 <= index
    /\ index < Len(pl.songs)
    /\ Song_play(pl.songs[index + 1]) # Raised

PlaySong ==
    /\ \E index \in Indexes :
          LET r == play_song(pl, index)
          IN  /\ Plays(index) => Len(played) < MaxPlays
              /\ pl' = r.obj
              /\ played' = IF Plays(index) THEN Append(played, pl.songs[index + 1]) ELSE played
              /\ call' = Call("play_song", IntV(index), FALSE, Ret(r.ret))
    /\ UNCHANGED <<employees, file, saved, hist, emp, today>>

PlayNext ==
    /\ Plays(0) => Len(played) < MaxPlays
    /\ LET r == play_next(pl)
       IN  /\ pl' = r.obj
           /\ played' = IF Plays(0) THEN Append(played, pl.songs[1]) ELSE played
           /\ call' = Call("play_next", Absent, FALSE, Ret(r.ret))
    /\ UNCHANGED <<employees, file, saved, hist, emp, today>>

NextPlaylist ==
    AddSong \/ RemoveSongByName \/ RemoveSongByIndex \/ Shuffle \/ PlaySong \/ PlayNext

SpecPlaylist == InitPlaylist /\ [][NextPlaylist]_vars

(***************************************************************************)
(* Claims on the registry and its persistence (Spec, SpecLoad)             *)
(***************************************************************************)
KeysOf(reg) == {KeyOf(reg[i]) : i \in 1..Len(reg)}

CoreNumeric == {"monthly_salary", "bonus_percent", "hourly_rate", "monthly_hours", "stipend"}

\* a core numeric field is missing on both sides or holds equal numbers
SameNumber(a, b) == (a = Absent /\ b = Absent) \/ NumEq(a, b)

\* C1: after save_to_file of a non-empty registry, a new HRSystem loaded
\* from the file has the same emp_ids, and for each the same variant, the
\* same role and equal monthly_salary, bonus_percent, hourly_rate,
\* monthly_hours and stipend.
C1_SaveLoadRoundTrip ==
    (call.op = "HRSystem" /\ saved.valid) =>
        /\ KeysOf(employees) = KeysOf(saved.reg)
        /\ \A i \in 1..Len(saved.reg) :
              LET x == saved.reg[i]
                  y == get_employee(employees, KeyOf(x))
              IN  /\ y.cls = x.cls
                  /\ y.data["role"] = x.data["role"]
                  /\ \A k \in CoreNumeric : SameNumber(x.data[k], y.data[k])

\* the index of the last row of the file with this emp_id
LastRow(f, id) ==
    CHOOSE i \in 1..Len(f.rows) :
        /\ Cell(f.rows[i], "emp_id") = id
        /\ \A j \in (i + 1)..Len(f.rows) : Cell(f.rows[j], "emp_id") # id

TrueTexts == {StrV(<<"T", "r", "u", "e">>), StrV(<<"t", "r", "u", "e">>), StrV(<<"1">>)}

\* C2: a loaded Intern whose row has a completed cell other than "True",
\* "true" or "1" is not completed: calculate_salary(True) returns what
\* calculate_salary(False) returns.
C2_CompletedOnlyFromTrueTexts ==
    (call.op = "Intern.calculate_salary" /\ call.flag) =>
        LET row == file.rows[LastRow(file, call.arg)]
            e   == get_employee(employees, call.arg)
        IN  (Cell(row, "completed") \notin TrueTexts) =>
                (call.ret = Intern_calculate_salary(e, FALSE).ret)

\* C3: HRSystem() never raises, and the registry is empty when the file
\* does not exist or when any row of it raises while it is parsed, whatever
\* rows were loaded before that row.
C3_FailSafeEmptyLoad ==
    call.op = "HRSystem" =>
        /\ call.ret # Raised
        /\ (~file.exists \/ \E i \in 1..Len(file.rows) : LoadRow(file.rows[i]) = Raised)
              => (employees = <<>>)

\* C3 witness: the first row of the file loads, the second has a cell that
\* float() rejects, and the registry is empty after HRSystem()
C3_Witness ==
    /\ call.op = "HRSystem"
    /\ Len(file.rows) = 2
    /\ LoadRow(file.rows[1]) # Raised
    /\ LoadRow(file.rows[2]) = Raised
    /\ employees = <<>>

\* C4: a save_to_file step on an empty registry leaves the file as it was:
\* it is not created, and its content is not changed.
C4_SaveEmptyLeavesFile ==
    [][(call'.op = "save_to_file" /\ employees = <<>>) => file' = file]_vars

\* C4 witness: save_to_file was called on a registry emptied by
\* remove_employee, and the file written earlier still holds its row
C4_Witness ==
    /\ call.op = "save_to_file"
    /\ employees = <<>>
    /\ hist[E1].st = "removed"
    /\ saved.valid
    /\ file.exists
    /\ Len(file.rows) = Len(saved.reg)

\* C5: get_employee(id) is the object of the latest add_employee for the id
\* when no remove_employee(id) followed it, and None after the remove; no
\* registry call raises; get_employee and remove_employee of an absent id
\* leave the registry unchanged.
C5_LastAddWinsUntilRemoved ==
    /\ [](/\ \A id \in Ids :
               /\ (hist[id].st = "added") =>
                      (get_employee(employees, StrV(id)) = hist[id].rec)
               /\ (hist[id].st = "removed") =>
                      (get_employee(employees, StrV(id)) = NoneEmp)
          /\ (call.op \in {"add_employee", "remove_employee", "get_employee"}) =>
                 (call.ret # Raised))
    /\ [][((call'.op = "get_employee") =>
              (employees' = employees /\ emp' = get_employee(employees, call'.arg)))
          /\ ((call'.op = "remove_employee" /\ ~HasKey(employees, call'.arg)) =>
              (employees' = employees))]_vars

\* C5 witness: E2 was removed, E1 was added while the registry already
\* held an E1 of another variant, and get_employee(E1) returned the new one
C5_Witness ==
    /\ call.op = "get_employee"
    /\ call.arg = StrV(E1)
    /\ hist[E1].st = "added"
    /\ hist[E2].st = "removed"
    /\ emp = hist[E1].rec
    /\ emp.cls = "Intern"
    /\ saved.valid
    /\ get_employee(saved.reg, StrV(E1)).cls = "FullTime"

RowsOf(f, id) == {i \in 1..Len(f.rows) : Cell(f.rows[i], "emp_id") = id}

\* C6: after a load in which no row raised, an emp_id with several rows in
\* the file has exactly one record in the registry, the one built from the
\* last of those rows alone.
C6_LastRowWins ==
    (call.op = "HRSystem" /\ file.exists
        /\ \A i \in 1..Len(file.rows) : LoadRow(file.rows[i]) # Raised) =>
        \A id \in KeysOf(employees) \cup {StrV(x) : x \in Ids} :
            (Cardinality(RowsOf(file, id)) > 1) =>
                /\ Cardinality({i \in 1..Len(employees) : KeyOf(employees[i]) = id}) = 1
                /\ get_employee(employees, id) = LoadRow(file.rows[LastRow(file, id)])

\* C6 witness: two rows for E1, a Full-Time row then an Intern row with
\* another name; the registry holds one record, the Intern
C6_Witness ==
    /\ call.op = "HRSystem"
    /\ Len(file.rows) = 2
    /\ file.rows[1]["emp_id"] = E1
    /\ file.rows[2]["emp_id"] = E1
    /\ file.rows[1]["role"] = RoleFullTime
    /\ file.rows[2]["role"] = RoleIntern
    /\ file.rows[1]["name"] # file.rows[2]["name"]
    /\ Len(employees) = 1
    /\ employees[1].cls = "Intern"
    /\ employees[1].data["name"] = StrV(file.rows[2]["name"])
    /\ employees[1].data["monthly_salary"] = Absent

\* the typed columns that step 2 parses for a role
TypedColumns(role) ==
    CASE role = RoleFullTime -> {"monthly_salary"}
      [] role = RolePartTime -> {"hourly_rate", "monthly_hours"}
      [] role = RoleIntern -> {"stipend"}
      [] OTHER -> {}

\* C10: after a load, a typed column of a row's variant with a non-empty
\* text that the variant's float() parse accepted holds a number equal to
\* the value that parse had stored.
C10_CoercionKeepsParsedValue ==
    (call.op = "HRSystem" /\ file.exists
        /\ \A i \in 1..Len(file.rows) : LoadRow(file.rows[i]) # Raised) =>
        \A i \in 1..Len(file.rows) :
            LET row == file.rows[i]
                e   == get_employee(employees, Cell(row, "emp_id"))
            IN  (i = LastRow(file, Cell(row, "emp_id")) /\ "role" \in DOMAIN row) =>
                    \A k \in TypedColumns(row["role"]) :
                        (row[k] # <<>>) =>
                            /\ IsNumber(e.data[k])
                            /\ NumEq(e.data[k], Dispatch(row).data[k])

(***************************************************************************)
(* Claims on the salary rules (SpecSalary)                                 *)
(***************************************************************************)
\* v in units of 10^-4, for the amounts and hours of the calls
Units4(v) == Scaled(v, -4)

\* x is the amount p (in units of 10^-4) rounded to two decimals
IsRoundedTo2(x, p) ==
    /\ IsNumber(x)
    /\ Units4(x) % 100 = 0
    /\ Units4(x) - p <= 50
    /\ p - Units4(x) <= 50

\* C7: PartTime.calculate_salary(hours_worked, apply_bonus) returns
\* hourly_rate * hours_worked * 1.02 (to two decimals) when apply_bonus is
\* true and hours_worked >= 80, and hourly_rate * hours_worked (to two
\* decimals) in every other case.
C7_PartTimeBonusIffEightyHours ==
    call.op = "PartTime.calculate_salary" =>
        LET rate  == Scaled(emp.data["hourly_rate"], -1)
            hours == Scaled(call.arg, -1)
        IN  IF call.flag /\ hours >= 800
            THEN IsRoundedTo2(call.ret, rate * hours * 102)
            ELSE IsRoundedTo2(call.ret, rate * hours * 100)

\* C7 witness: rate 500 at the boundary of 80 hours with the bonus asked
\* for returns 40800.0
C7_Witness ==
    /\ call.op = "PartTime.calculate_salary"
    /\ call.flag
    /\ call.arg = IntV(80)
    /\ emp.data["hourly_rate"] = IntV(500)
    /\ NumEq(call.ret, IntV(40800))

\* C8: a PartTime.calculate_salary(hours_worked, ...) step leaves the record
\* equal to the record before it with monthly_hours set to hours_worked and
\* nothing else changed; a FullTime or Intern calculate_salary step leaves
\* the record unchanged.
C8_OnlyMonthlyHoursWritten ==
    [][/\ (call'.op = "PartTime.calculate_salary") =>
            (emp' = [emp EXCEPT !.data["monthly_hours"] = call'.arg])
       /\ (call'.op \in {"FullTime.calculate_salary", "Intern.calculate_salary"}) =>
            (emp' = emp)]_vars

\* C8 witness: a second PartTime call (79 hours, no bonus) has overwritten
\* the hours stored by an earlier one
C8_Witness ==
    /\ call.op = "PartTime.calculate_salary"
    /\ call.arg = IntV(79)
    /\ ~call.flag
    /\ emp.data["monthly_hours"] = IntV(79)

\* the extra rate of the claim, in hundredths
ExpectedExtraPct(y) ==
    IF y >= 15 THEN 5
    ELSE IF y >= 12 THEN 4
    ELSE IF y >= 9 THEN 3
    ELSE IF y >= 6 THEN 2
    ELSE IF y >= 3 THEN 1
    ELSE IF y >= 0 THEN 0
    ELSE -((2 - y) \div 3)

\* C9: in FullTime.calculate_salary with apply_bonus the extra rate is 0 for
\* 0..2 years of service, 0.01 for 3..5, rising by 0.01 per 3 full years,
\* and 0.05 for every 15 years or more (min(floor(years/3) * 0.01, 0.05)).
C9_ExtraRateStepsAndCap ==
    (call.op = "FullTime.calculate_salary" /\ call.flag) =>
        /\ call.years.t = "int"
        /\ IsNumber(call.extra)
        /\ Scaled(call.extra, -2) = ExpectedExtraPct(call.years.m)
        /\ Scaled(call.extra, -2) <= 5

\* C9 witness: 18 years of service, where the cap cuts 0.06 down to 0.05
C9_Witness ==
    /\ call.op = "FullTime.calculate_salary"
    /\ call.flag
    /\ call.years = IntV(18)
    /\ call.extra = FloatV(5, -2)

\* the last n elements of a sequence
LastN(q, n) == SubSeq(q, Len(q) - n + 1, Len(q))

\* C11: after any sequence of Playlist calls recently_played holds at most
\* recently_played_limit songs and is exactly the last min(limit, number of
\* successful plays) successfully played songs in play order; and a
\* play_song with an index out of range, or a play_next on an empty
\* playlist, leaves songs and recently_played as they were.
C11_RecentlyPlayedIsBoundedTail ==
    /\ [](/\ Len(pl.recently_played) <= pl.maxlen
          /\ pl.recently_played = LastN(played, Min(pl.maxlen, Len(played))))
    /\ [][((\/ (call'.op = "play_song" /\ ~(0 <= call'.arg.m /\ call'.arg.m < Len(pl.songs)))
            \/ (call'.op = "play_next" /\ pl.songs = <<>>))
           => (pl'.songs = pl.songs /\ pl'.recently_played = pl.recently_played))]_vars

\* C11 witness: a play_song that returned after more plays than the limit,
\* so that the oldest play has been evicted and two different songs remain
C11_Witness ==
    /\ call.op = "play_song"
    /\ call.ret = NoneV
    /\ pl.maxlen = 2
    /\ Len(played) > pl.maxlen
    /\ Len(pl.recently_played) = 2
    /\ pl.recently_played[1] # pl.recently_played[2]
    /\ played[1] # pl.recently_played[1]

====
